---- MODULE Spec2Model ----
(***************************************************************************)
(* A model of the Reddit source collector: the sliding-window RateLimiter  *)
(* of examples.py and the record store DBContext of Model/db_context.py.   *)
(*                                                                         *)
(* Time is counted in ticks of 0.1 second, the safety margin that          *)
(* wait_if_needed adds to every sleep.                                     *)
(***************************************************************************)
EXTENDS Integers, Naturals, Sequences, FiniteSets, TLC

VARIABLES
    \* ---- RateLimiter (examples.py) ----
    maxRequests,   \* self.max_requests
    timeWindow,    \* self.time_window, in ticks
    requests,      \* self.requests: the list of recorded timestamps
    clock,         \* the wall clock, datetime.now(), in ticks
    lpc,           \* where the single caller is: "idle" or "sleeping" in time.sleep
    now,           \* the local `now` of the call in progress (or of the last call)
    wakeAt,        \* the earliest time at which the sleeping caller may be released
    starts,        \* history: the time each call entered wait_if_needed
    released,      \* history: the time each call returned from wait_if_needed
    \* ---- DBContext (Model/db_context.py) ----
    table,         \* the rows of the RedditSource table
    pc,            \* per caller: "idle", or "upsert" between upsert's read and its write
    call,          \* per caller: the call in progress, or the last call made
    existing,      \* per caller: what upsert's read found (`existing` is truthy)
    ret,           \* per caller: what the last completed call returned
    again,         \* per caller: whether the upsert repeats the caller's previous call
    listed,        \* what the last list_all returned to its caller
    \* ---- RedditDataCollector (examples.py) ----
    cpc,           \* "idle", "admit" inside wait_if_needed, "body" after it
    ccall,         \* the collector call in progress, or the last one made
    base,          \* how many calls wait_if_needed had released when it was called
    fetches,       \* history: requests issued to the external source
    cret,          \* what the last completed collector call returned
    \* ---- EngagementAnalyzer (examples.py) ----
    post,          \* a post dictionary
    twin,          \* a post dictionary with the same score, num_comments and upvote_ratio
    quality,       \* calculate_engagement_quality of post and of twin, once computed
    elapsed,       \* datetime.now().timestamp() - post['created_utc'], in seconds
    velocity,      \* calculate_engagement_velocity of post, once computed
    \* ---- threads that share one RateLimiter ----
    tpc,           \* per thread: the statement of wait_if_needed it is at
    locals,        \* per thread: its local `now` and the list it filtered
    \* ---- several RedditDataCollector objects ----
    private,       \* per collector: self.rate_limiter.requests
    \* ---- the caller of DBContext ----
    held,          \* the record object the caller keeps from its last call
    \* ---- TopicExtractor (examples.py) ----
    titles,        \* the titles of the posts given to extract_keywords
    top_n,         \* its top_n argument
    keywords       \* what it returned, once computed

limiterVars == <<maxRequests, timeWindow, requests, clock, lpc, now, wakeAt, starts, released>>

storeVars == <<table, pc, call, existing, ret, again>>

collectorVars == <<cpc, ccall, base, fetches, cret>>

analyzerVars == <<post, twin, quality, elapsed, velocity>>

threadVars == <<tpc, locals>>

extractorVars == <<titles, top_n, keywords>>

\* the variables of the threads, the collectors' own limiters, the caller's
\* record and the extractor
sideVars == <<threadVars, private, held, extractorVars>>

\* what a RateLimiter call leaves alone, and what a DBContext call leaves alone
outsideLimiter == <<storeVars, listed, collectorVars, analyzerVars, sideVars>>
outsideStore == <<limiterVars, listed, collectorVars, analyzerVars, sideVars>>

vars == <<limiterVars, storeVars, listed, collectorVars, analyzerVars, sideVars>>

----------------------------------------------------------------------------
(* Bounds of the model.                                                     *)

MaxRequests == 3    \* max_requests ranges over 1..MaxRequests
MaxWindow == 3      \* time_window ranges over 1..MaxWindow ticks
MaxClock == 7       \* the clock is advanced between calls up to this time
MaxCalls == 5       \* calls to wait_if_needed in one behaviour
MaxOversleep == 1   \* ticks by which time.sleep may overshoot
MaxId == 3          \* rows are inserted while the next id is at most this
MaxStamp == 1       \* the database clock is advanced up to this time
MaxThreadCalls == 3 \* calls to wait_if_needed by all threads in one behaviour
MaxThreadClock == 3 \* the clock is advanced up to this time while threads call
MaxScore == 3       \* the score of a post ranges over -MaxScore..MaxScore
MaxNumComments == 4 \* num_comments of a post ranges over 0..MaxNumComments

----------------------------------------------------------------------------
(* RateLimiter.wait_if_needed                                               *)

\* time.sleep(sleep_time + 0.1): the 0.1 second margin is one tick
Margin == 1

\* RateLimiter(): max_requests = 60, time_window = 60 seconds, in ticks
DefaultMaxRequests == 60
DefaultTimeWindow == 600

\* (a filter that keeps the request made exactly time_window ago)
PruneInclusive(reqs, t, window) == SelectSeq(reqs, LAMBDA req : req >= t - window)

\* self.requests = [req for req in self.requests if req > cutoff]
Prune(reqs, t, window) == SelectSeq(reqs, LAMBDA req : req > t - window)

\* (an off-by-one limit test: a full window is passed once more)
AtLimitOffByOne(reqs, limit) == Len(reqs) > limit

\* len(self.requests) >= self.max_requests
AtLimit(reqs, limit) == Len(reqs) >= limit

\* (self.requests[0] + timedelta(seconds=self.time_window) - now).total_seconds()
SleepTime(reqs, t, window) == reqs[1] + window - t

\* A call that finds room, or a window that is full with no positive wait:
\* the whole handler runs without suspending and appends `now`.
AdmitNoWait ==
    /\ lpc = "idle"
    /\ Len(released) < MaxCalls
    /\ LET kept == Prune(requests, clock, timeWindow) IN
        /\ ~(AtLimit(kept, maxRequests) /\ SleepTime(kept, clock, timeWindow) > 0)
        /\ requests' = Append(kept, clock)
    /\ now' = clock
    /\ starts' = Append(starts, clock)
    /\ released' = Append(released, clock)
    /\ UNCHANGED <<maxRequests, timeWindow, clock, lpc, wakeAt>>
    /\ UNCHANGED outsideLimiter

\* A call that finds the window full: prune, compute sleep_time, enter time.sleep.
AdmitBeginWait ==
    /\ lpc = "idle"
    /\ Len(released) < MaxCalls
    /\ LET kept == Prune(requests, clock, timeWindow) IN
        /\ AtLimit(kept, maxRequests)
        /\ SleepTime(kept, clock, timeWindow) > 0
        /\ requests' = kept
        /\ wakeAt' = clock + SleepTime(kept, clock, timeWindow) + Margin
    /\ now' = clock
    /\ lpc' = "sleeping"
    /\ starts' = Append(starts, clock)
    /\ UNCHANGED <<maxRequests, timeWindow, clock, released>>
    /\ UNCHANGED outsideLimiter

\* (a sleep after which the list is kept and `now` is appended to it)
AfterSleepKeeping(reqs, t) == Append(reqs, t)

\* the list after the sleep: self.requests = [] and then self.requests.append(now)
AfterSleep(reqs, t) == Append(<<>>, t)

\* time.sleep returns (no earlier than asked, possibly later); the list is
\* cleared, the `now` read before the sleep is appended, and the call returns.
AdmitEndWait ==
    /\ lpc = "sleeping"
    /\ \E extra \in 0..MaxOversleep :
        /\ clock' = wakeAt + extra
        /\ released' = Append(released, wakeAt + extra)
    /\ requests' = AfterSleep(requests, now)
    /\ lpc' = "idle"
    /\ UNCHANGED <<maxRequests, timeWindow, now, wakeAt, starts>>
    /\ UNCHANGED outsideLimiter

\* Time passes between two calls of the caller.
Tick ==
    /\ lpc = "idle"
    /\ clock < MaxClock
    /\ clock' = clock + 1
    /\ UNCHANGED <<maxRequests, timeWindow, requests, lpc, now, wakeAt, starts, released>>
    /\ UNCHANGED outsideLimiter

----------------------------------------------------------------------------
(* The RedditSource table and the values stored in it.                      *)

\* Optional[...]: None, or a value
None == <<>>
Some(x) == <<x>>

\* the natural keys (source, source_id) the callers use
K1 == [source |-> "reddit", source_id |-> "p1"]
K2 == [source |-> "reddit", source_id |-> "p2"]
Keys == {K1, K2}
K3 == [source |-> "reddit", source_id |-> "p3"]
ListKeys == {K1, K2, K3}
NoKey == [source |-> "", source_id |-> ""]

\* the callers
Procs == {1, 2}

\* score_dictionary arguments: mappings of a name to a number, as sets of pairs
MNone == None
MEmpty == Some({})
MOne == Some({<<"upvotes", 1500>>, <<"comments", 250>>})
MTwo == Some({<<"upvotes", 7>>})

\* the keyword arguments of create, upsert and update; None is an omitted one
Fields(t, d, g, s, m, p) ==
    [title |-> t, description |-> d, tags |-> g, score |-> s,
     score_dictionary |-> m, processed |-> p]

NoFields == Fields(None, None, None, None, None, None)

\* arguments of create and upsert
PFull == Fields(Some("T1"), Some("D1"), Some("g1"), Some(10), MOne, None)
PBare == Fields(Some("T2"), None, None, None, MNone, None)
PEmpty == Fields(Some("T2"), Some("D1"), None, Some(10), MEmpty, None)
PAlt == Fields(Some("T1"), None, Some("g1"), None, MTwo, None)

\* three posts whose order by title, by id and by score differ
PListed(k) ==
    CASE k = K1 -> Fields(Some("T2"), None, None, Some(10), MNone, None)
      [] k = K2 -> Fields(Some("T1"), None, None, Some(50), MNone, None)
      [] k = K3 -> Fields(Some("T3"), None, None, Some(30), MNone, None)

\* create or upsert with an empty title
PUntitled == Fields(Some(""), None, None, Some(10), MNone, None)

\* arguments of update
UTitle == Fields(Some("T2"), None, None, None, None, None)
UDetails == Fields(None, Some("D2"), Some("g2"), Some(50), None, None)
UProcessed == Fields(None, None, None, None, None, Some(TRUE))
UNothing == NoFields
UMetricsEmpty == Fields(None, None, None, None, MEmpty, None)

\* what a call returns: a record (its id), None, a bool or an int
RetRecord(id) == [kind |-> "record", n |-> id]
RetNone == [kind |-> "none", n |-> 0]
RetBool(b) == [kind |-> "bool", n |-> IF b THEN 1 ELSE 0]
RetInt(n) == [kind |-> "int", n |-> n]

\* what a call raises: an exception of the storage engine that is not an
\* IntegrityError, or the exception of an invalid argument
StorageFault == [kind |-> "raised", n |-> 0]
UsageFault == [kind |-> "raised", n |-> 1]

\* RedditSource.set_score_dict: the mapping is written as one text column,
\* here the sequence of its pairs
Encode(m) ==
    CHOOSE text \in [1..Cardinality(m) -> m] : \A pair \in m : \E i \in DOMAIN text : text[i] = pair

\* RedditSource.get_score_dict: the text column read back as a mapping; an absent
\* column is the empty mapping
Decode(blob) ==
    IF blob = None THEN {} ELSE {blob[1][i] : i \in DOMAIN blob[1]}

set_score_dict(row, m) == [row EXCEPT !.score_dictionary = Some(Encode(m))]

get_score_dict(row) == Decode(row.score_dictionary)

\* the id the table assigns to a new row
NextId(rows) ==
    IF rows = {} THEN 1
    ELSE (CHOOSE i \in {r.id : r \in rows} : \A r \in rows : r.id <= i) + 1

\* session.query(RedditSource).filter_by(source=..., source_id=...)
filter_by(rows, k) == {r \in rows : r.source = k.source /\ r.source_id = k.source_id}

\* .first(): the row of lowest id, None when the query is empty
first(rows) ==
    IF rows = {} THEN None
    ELSE Some(CHOOSE r \in rows : \A o \in rows : r.id <= o.id)

\* the IntegrityError of commit: a row with the same source and source_id
\* already exists
IntegrityError(rows, row) ==
    \E r \in rows : r.source = row.source /\ r.source_id = row.source_id

\* the title RedditSource(...) accepts: a required, non-empty string
ValidTitle(t) == t # None /\ t[1] # ""

\* `if score_dictionary:` of create
Truthy(m) == m # None /\ m[1] # {}

\* RedditSource(source=..., ...) of create, and set_score_dict when the mapping
\* is truthy; processed takes the column default
NewRow(rows, k, f) ==
    LET record == [id |-> NextId(rows), source |-> k.source, source_id |-> k.source_id,
                   title |-> f.title[1], description |-> f.description,
                   tags |-> f.tags, score |-> f.score,
                   score_dictionary |-> None, processed |-> FALSE,
                   created_at |-> clock, updated_at |-> clock]
    IN  IF Truthy(f.score_dictionary)
        THEN set_score_dict(record, f.score_dictionary[1])
        ELSE record

\* (create with no uniqueness conflict: the row is inserted whatever the table holds)
create_unchecked(rows, k, f) ==
    LET record == NewRow(rows, k, f)
    IN  [table |-> rows \cup {record}, ret |-> RetRecord(record.id)]

\* (create that overwrites the stored row on a conflict)
create_overwriting(rows, k, f) ==
    LET record == NewRow(rows, k, f)
    IN  IF IntegrityError(rows, record)
        THEN [table |-> (rows \ filter_by(rows, k)) \cup {record}, ret |-> RetRecord(record.id)]
        ELSE [table |-> rows \cup {record}, ret |-> RetRecord(record.id)]

\* DBContext.create: add and commit; on IntegrityError roll back and return None
create(rows, k, f) ==
    LET record == NewRow(rows, k, f)
    IN  IF ~ValidTitle(f.title)
        THEN [table |-> rows, ret |-> UsageFault]
        ELSE IF IntegrityError(rows, record)
        THEN [table |-> rows, ret |-> RetNone]
        ELSE [table |-> rows \cup {record}, ret |-> RetRecord(record.id)]

\* DBContext.read
read(rows, k) == first(filter_by(rows, k))

\* (update that assigns every argument, supplied or not)
AssignAll(record, f) ==
    LET r1 == [record EXCEPT !.description = f.description, !.tags = f.tags,
                             !.score = f.score]
        r2 == IF f.title # None THEN [r1 EXCEPT !.title = f.title[1]] ELSE r1
        r3 == IF f.score_dictionary # None
              THEN set_score_dict(r2, f.score_dictionary[1]) ELSE r2
    IN  IF f.processed # None THEN [r3 EXCEPT !.processed = f.processed[1]] ELSE r3

\* (update that tests the mapping for truth, as create does)
AssignTruthy(record, f) ==
    LET r1 == [record EXCEPT
                 !.title = IF f.title # None THEN f.title[1] ELSE @,
                 !.description = IF f.description # None THEN f.description ELSE @,
                 !.tags = IF f.tags # None THEN f.tags ELSE @,
                 !.score = IF f.score # None THEN f.score ELSE @,
                 !.processed = IF f.processed # None THEN f.processed[1] ELSE @]
    IN  IF Truthy(f.score_dictionary)
        THEN set_score_dict(r1, f.score_dictionary[1]) ELSE r1

\* (update that merges the supplied mapping into the stored one)
AssignMerging(record, f) ==
    LET r1 == [record EXCEPT
                 !.title = IF f.title # None THEN f.title[1] ELSE @,
                 !.description = IF f.description # None THEN f.description ELSE @,
                 !.tags = IF f.tags # None THEN f.tags ELSE @,
                 !.score = IF f.score # None THEN f.score ELSE @,
                 !.processed = IF f.processed # None THEN f.processed[1] ELSE @]
        old == get_score_dict(record)
        new == f.score_dictionary[1]
    IN  IF f.score_dictionary # None
        THEN set_score_dict(r1, new \cup {pair \in old : \A other \in new : other[1] # pair[1]})
        ELSE r1

\* the assignments of update: each argument that is not None is assigned
Assign(record, f) ==
    LET r1 == [record EXCEPT
                 !.title = IF f.title # None THEN f.title[1] ELSE @,
                 !.description = IF f.description # None THEN f.description ELSE @,
                 !.tags = IF f.tags # None THEN f.tags ELSE @,
                 !.score = IF f.score # None THEN f.score ELSE @,
                 !.processed = IF f.processed # None THEN f.processed[1] ELSE @]
    IN  IF f.score_dictionary # None
        THEN set_score_dict(r1, f.score_dictionary[1]) ELSE r1

\* updated_at of a row that an UPDATE statement writes: the time of the write
Touch(record) == [record EXCEPT !.updated_at = clock]

\* session.commit() of update: the session writes the row when an attribute
\* of the record has a new value, and writes nothing when none has
Flush(old, new) == IF new # old THEN Touch(new) ELSE old

\* (update that returns the record and commits nothing)
update_uncommitted(rows, k, f) ==
    LET record == first(filter_by(rows, k))
    IN  IF record # None
        THEN [table |-> rows, ret |-> RetRecord(record[1].id)]
        ELSE [table |-> rows, ret |-> RetNone]

\* (update that inserts the row when the key is not stored)
update_creating(rows, k, f) ==
    LET record == first(filter_by(rows, k))
    IN  IF record # None
        THEN [table |-> (rows \ {record[1]}) \cup {Assign(record[1], f)},
              ret |-> RetRecord(record[1].id)]
        ELSE [table |-> rows \cup {Assign(NewRow(rows, k, PBare), f)}, ret |-> RetNone]

\* DBContext.update: the first row of the key is assigned and committed, None
\* is returned when there is none
update(rows, k, f) ==
    LET record == first(filter_by(rows, k))
    IN  IF record # None
        THEN [table |-> (rows \ {record[1]}) \cup {Flush(record[1], Assign(record[1], f))},
              ret |-> RetRecord(record[1].id)]
        ELSE [table |-> rows, ret |-> RetNone]

\* (upsert that replaces the stored row by a new one)
upsert_replacing(rows, found, k, f) == create(rows \ filter_by(rows, k), k, f)

\* (upsert with the test of `existing` inverted)
upsert_inverted(rows, found, k, f) ==
    IF found THEN create(rows, k, f) ELSE update(rows, k, f)

\* (upsert that falls back on update when its create is refused)
upsert_retrying(rows, found, k, f) ==
    IF found THEN update(rows, k, f)
    ELSE IF create(rows, k, f).ret = RetNone THEN update(rows, k, f)
         ELSE create(rows, k, f)

\* DBContext.upsert after its read: update when `existing`, create otherwise
upsert_write(rows, found, k, f) ==
    IF found THEN update(rows, k, f) ELSE create(rows, k, f)

\* (delete that filters by source alone)
delete_by_source(rows, k) ==
    LET found == {r \in rows : r.source = k.source}
    IN  IF found # {}
        THEN [table |-> rows \ found, ret |-> RetBool(TRUE)]
        ELSE [table |-> rows, ret |-> RetBool(FALSE)]

\* DBContext.delete
delete(rows, k) ==
    LET record == first(filter_by(rows, k))
    IN  IF record # None
        THEN [table |-> rows \ {record[1]}, ret |-> RetBool(TRUE)]
        ELSE [table |-> rows, ret |-> RetBool(FALSE)]

\* DBContext.count
count(rows) == Cardinality(rows)

\* DBContext.count_by_source
count_by_source(rows, source) == Cardinality({r \in rows : r.source = source})

\* (clear_all that counts the records after it deleted them)
clear_all_counting_last(rows) == [table |-> {}, ret |-> RetInt(count({}))]

\* DBContext.clear_all
clear_all(rows) == [table |-> {}, ret |-> RetInt(count(rows))]

\* the columns of RedditSource a listing is ordered by here, and its methods
Columns == {"id", "title", "score", "created_at", "updated_at"}
Methods == {"to_dict", "get_score_dict", "set_score_dict"}

\* order_column = getattr(RedditSource, order_by, RedditSource.score): the
\* attribute of that name when the class has one, the score column otherwise
order_column(order_by) ==
    IF order_by \in Columns \cup Methods THEN order_by ELSE "score"

\* the place of a title in the collation of the text column
Collate(t) == CASE t = "" -> 0 [] t = "T1" -> 1 [] t = "T2" -> 2 [] t = "T3" -> 3

\* ORDER BY column ASC puts a before b, or leaves their order open (equal
\* values); NULL sorts before every value
NotAfter(a, b, column) ==
    CASE column = "score" ->
            a.score = None \/ (b.score # None /\ a.score[1] <= b.score[1])
      [] column = "created_at" -> a.created_at <= b.created_at
      [] column = "updated_at" -> a.updated_at <= b.updated_at
      [] column = "id" -> a.id <= b.id
      [] column = "title" -> Collate(a.title) <= Collate(b.title)

\* query.order_by(asc(order_column)) or desc(...): every order of the rows that
\* respects the column, rows with equal values in any order
order_by(rows, column, ascending) ==
    {s \in [1..Cardinality(rows) -> rows] :
        /\ \A r \in rows : \E i \in DOMAIN s : s[i] = r
        /\ \A i, j \in DOMAIN s : i < j =>
                IF ascending THEN NotAfter(s[i], s[j], column)
                ELSE NotAfter(s[j], s[i], column)}

\* what list_all returned: the records in order, or the exception it raised
Listing(kind, records, n, column, ascending) ==
    [kind |-> kind, records |-> records, limit |-> n, order_by |-> column,
     ascending |-> ascending]

NoList == Listing("none", <<>>, None, "", FALSE)

\* (list_all that applies the limit whenever one is given)
list_all_limiting(rows, n, column, ascending) ==
    {Listing("records", IF n # None THEN SubSeq(s, 1, IF n[1] < Len(s) THEN n[1] ELSE Len(s)) ELSE s,
             n, column, ascending) :
        s \in order_by(rows, order_column(column), ascending)}

\* DBContext.list_all: the results it can return. An attribute that is a method
\* is no column expression: asc() or desc() raises and the exception
\* propagates. `if limit:` applies the limit when it is neither None nor 0.
list_all(rows, n, column, ascending) ==
    IF order_column(column) \in Methods
    THEN {Listing("raised", <<>>, n, column, ascending)}
    ELSE {Listing("records",
                  IF n # None /\ n[1] # 0
                  THEN SubSeq(s, 1, IF n[1] < Len(s) THEN n[1] ELSE Len(s)) ELSE s,
                  n, column, ascending) :
            s \in order_by(rows, order_column(column), ascending)}

\* The statements of a call at which the storage engine can raise: the query,
\* the flush and COMMIT of session.commit(), and the SELECT of
\* session.refresh(record) that follows the commit.
FaultsAt(op) ==
    CASE op = "create" -> {"commit", "refresh"}
      [] op = "update" -> {"query", "commit", "refresh"}
      [] op = "delete" -> {"query", "commit"}
      [] op = "clear_all" -> {"query", "commit"}

\* the statement `at` is executed by the call: commit and refresh are reached
\* only on the path that found, or inserted, a row
Reached(op, rows, k, f, at) ==
    CASE op = "create" ->
            ValidTitle(f.title) /\ (at = "refresh" => create(rows, k, f).ret.kind = "record")
      [] op = "update" -> at = "query" \/ filter_by(rows, k) # {}
      [] op = "delete" -> at = "query" \/ filter_by(rows, k) # {}
      [] op = "clear_all" -> TRUE

\* (a fault that is always followed by an effective rollback)
fault_rolled_back(rows, op, k, f, at) == [table |-> rows, ret |-> StorageFault]

\* A call in which the statement `at` raises. The except clauses roll the
\* session back and re-raise; a rollback after session.commit() returned has
\* nothing to undo, so a fault in refresh leaves the committed change in place.
fault(rows, op, k, f, at) ==
    IF at = "refresh"
    THEN [table |-> (IF op = "create" THEN create(rows, k, f) ELSE update(rows, k, f)).table,
          ret |-> StorageFault]
    ELSE [table |-> rows, ret |-> StorageFault]

----------------------------------------------------------------------------
(* The calls of a caller p. Every call but upsert is one transaction; upsert *)
(* is a read followed by an update or a create, each a transaction of its   *)
(* own, and other callers may act in between.                               *)

Called(op, k, f) == [op |-> op, key |-> k, f |-> f]

\* a call that is one transaction, with its result
Finish(p, op, k, f, res) ==
    /\ pc[p] = "idle"
    /\ table' = res.table
    /\ ret' = [ret EXCEPT ![p] = res.ret]
    /\ call' = [call EXCEPT ![p] = Called(op, k, f)]
    /\ existing' = [existing EXCEPT ![p] = FALSE]
    /\ again' = [again EXCEPT ![p] = "no"]
    /\ UNCHANGED pc
    /\ UNCHANGED outsideStore

\* the model inserts rows only while the ids stay within MaxId
IdsLeft(res) == res.table \subseteq table \/ NextId(table) <= MaxId

Create(p, k, f) ==
    /\ IdsLeft(create(table, k, f))
    /\ Finish(p, "create", k, f, create(table, k, f))

Read(p, k) ==
    LET record == read(table, k)
    IN  Finish(p, "read", k, NoFields,
               [table |-> table,
                ret |-> IF record = None THEN RetNone ELSE RetRecord(record[1].id)])

Update(p, k, f) == Finish(p, "update", k, f, update(table, k, f))

Delete(p, k) == Finish(p, "delete", k, NoFields, delete(table, k))

Count(p) == Finish(p, "count", NoKey, NoFields, [table |-> table, ret |-> RetInt(count(table))])

ClearAll(p) == Finish(p, "clear_all", NoKey, NoFields, clear_all(table))

CountBySource(p, source) ==
    Finish(p, "count_by_source", [source |-> source, source_id |-> ""], NoFields,
           [table |-> table, ret |-> RetInt(count_by_source(table, source))])

\* upsert, line 200: existing = self.read(source, source_id)
UpsertRead(p, k, f) ==
    /\ pc[p] = "idle"
    /\ pc' = [pc EXCEPT ![p] = "upsert"]
    /\ call' = [call EXCEPT ![p] = Called("upsert", k, f)]
    /\ existing' = [existing EXCEPT ![p] = read(table, k) # None]
    /\ again' = [again EXCEPT ![p] =
            IF call[p] = Called("upsert", k, f) /\ ret[p].kind = "record"
            THEN (IF existing[p] THEN "updated" ELSE "created")
            ELSE "no"]
    /\ UNCHANGED <<table, ret>>
    /\ UNCHANGED outsideStore

\* upsert, lines 202-221: the update or the create, and the return
UpsertWrite(p) ==
    /\ pc[p] = "upsert"
    /\ LET res == upsert_write(table, existing[p], call[p].key, call[p].f) IN
        /\ IdsLeft(res)
        /\ table' = res.table
        /\ ret' = [ret EXCEPT ![p] = res.ret]
    /\ pc' = [pc EXCEPT ![p] = "idle"]
    /\ UNCHANGED <<call, existing, again>>
    /\ UNCHANGED outsideStore

\* list_all(limit, order_by, ascending), one transaction that reads
ListAll(p, n, column, ascending) ==
    /\ pc[p] = "idle"
    /\ listed' \in list_all(table, n, column, ascending)
    /\ UNCHANGED <<limiterVars, storeVars, collectorVars, analyzerVars, sideVars>>

\* the caller drops the list it was given
DropList ==
    /\ listed # NoList
    /\ listed' = NoList
    /\ UNCHANGED <<limiterVars, storeVars, collectorVars, analyzerVars, sideVars>>

\* time passes on the clock of the database
Elapse == clock < MaxStamp /\ Tick

\* a call of create, update, delete or clear_all in which the engine raises
Fault(p, op, k, f, at) ==
    /\ at \in FaultsAt(op)
    /\ Reached(op, table, k, f, at)
    /\ IdsLeft(fault(table, op, k, f, at))
    /\ Finish(p, op, k, f, fault(table, op, k, f, at))

CreateFault(p, k, f, at) == Fault(p, "create", k, f, at)

UpdateFault(p, k, f, at) == Fault(p, "update", k, f, at)

DeleteFault(p, k, at) == Fault(p, "delete", k, NoFields, at)

ClearAllFault(p, at) == Fault(p, "clear_all", NoKey, NoFields, at)

\* upsert in which the query of self.read raises (line 200)
UpsertReadFault(p, k, f) ==
    /\ pc[p] = "idle"
    /\ call' = [call EXCEPT ![p] = Called("upsert", k, f)]
    /\ ret' = [ret EXCEPT ![p] = StorageFault]
    /\ existing' = [existing EXCEPT ![p] = FALSE]
    /\ again' = [again EXCEPT ![p] = "no"]
    /\ UNCHANGED <<table, pc>>
    /\ UNCHANGED outsideStore

\* upsert in which the engine raises inside self.update or self.create
UpsertWriteFault(p, at) ==
    /\ pc[p] = "upsert"
    /\ LET op == IF existing[p] THEN "update" ELSE "create"
           res == fault(table, op, call[p].key, call[p].f, at) IN
        /\ at \in FaultsAt(op)
        /\ Reached(op, table, call[p].key, call[p].f, at)
        /\ IdsLeft(res)
        /\ table' = res.table
        /\ ret' = [ret EXCEPT ![p] = res.ret]
    /\ pc' = [pc EXCEPT ![p] = "idle"]
    /\ UNCHANGED <<call, existing, again>>
    /\ UNCHANGED outsideStore

\* the arguments the single caller draws on
PayloadsFor(k) == IF k = K1 THEN {PFull, PBare, PEmpty, PAlt} ELSE {PFull}
UpdatesFor(k) ==
    IF k = K1 THEN {UTitle, UDetails, UProcessed, UNothing, UMetricsEmpty} ELSE {UTitle}

\* the arguments concurrent callers draw on, and the key they race on
ConcPayloadsFor(k) == IF k = K1 THEN {PFull, PBare} ELSE {PFull}
ConcUpdatesFor(k) == {UTitle}
RaceKeys == {K1}

\* a limiter that is constructed and never used
LimiterUnused ==
    /\ maxRequests = 1
    /\ timeWindow = 1
    /\ requests = <<>>
    /\ clock = 0
    /\ lpc = "idle"
    /\ now = 0
    /\ wakeAt = 0
    /\ starts = <<>>
    /\ released = <<>>

----------------------------------------------------------------------------
(* RedditDataCollector. A submission or comment of the external source is   *)
(* a record of the attributes the extraction reads; a listing is the        *)
(* sequence of pages the source serves, one request for each page.          *)

Raw(id, author, created_utc, more) ==
    [id |-> id, author |-> author, created_utc |-> created_utc, more |-> more]

\* submissions: one with an author, one whose author is deleted, one whose
\* created_utc is missing
R1 == Raw(1, Some("ann"), Some(100), FALSE)
R2 == Raw(2, None, Some(200), FALSE)
R3 == Raw(3, Some("bob"), Some(300), FALSE)
RBad == Raw(4, Some("cy"), None, FALSE)
RMore == Raw(5, None, None, TRUE)

\* datetime.fromtimestamp(created_utc).isoformat()
isoformat(t) == <<"iso", t>>

\* datetime.fromtimestamp(None) raises a TypeError
Raises(raw) == raw.created_utc = None

\* _extract_post_data and _extract_comment_data: the dictionary of a raw item
extract_data(raw) ==
    [id |-> raw.id,
     author |-> IF raw.author # None THEN raw.author[1] ELSE "[deleted]",
     created_utc |-> raw.created_utc[1],
     created_datetime |-> isoformat(raw.created_utc[1])]

\* the sort methods of collect_posts
SortKeys == {"hot", "new", "top", "rising"}

\* the items of a sequence before the first one whose extraction raises
RECURSIVE UntilRaise(_)
UntilRaise(items) ==
    IF items = <<>> \/ Raises(Head(items)) THEN <<>>
    ELSE <<Head(items)>> \o UntilRaise(Tail(items))

Extracted(items) == [i \in DOMAIN items |-> extract_data(items[i])]

\* `for submission in submissions:` inside the try of collect_posts: the
\* generator requests a page when the loop needs its first item; an exception
\* of _extract_post_data leaves the loop, and `return posts` returns what was
\* appended before it
RECURSIVE loop(_, _, _)
loop(pages, posts, n) ==
    IF pages = <<>> THEN [posts |-> posts, fetches |-> n]
    ELSE LET good == UntilRaise(Head(pages)) IN
         IF Len(good) < Len(Head(pages))
         THEN [posts |-> posts \o Extracted(good), fetches |-> n + 1]
         ELSE loop(Tail(pages), posts \o Extracted(good), n + 1)

\* collect_posts after wait_if_needed: the ValueError of an invalid sort_by is
\* raised inside the try and caught by `except Exception`, and the empty list
\* is returned
collect_posts(sort_by, listing) ==
    IF sort_by \in SortKeys THEN loop(listing, <<>>, 0)
    ELSE [posts |-> <<>>, fetches |-> 0]

\* collect_comments after wait_if_needed: the submission is requested, then
\* its comment tree; replace_more(limit=0) drops the "load more" placeholders
\* and list() flattens the tree. An exception returns the empty list.
collect_comments(tree, max_comments) ==
    LET comments == SelectSeq(tree, LAMBDA raw : ~raw.more)
        firstN == SubSeq(comments, 1, IF max_comments < Len(comments) THEN max_comments
                                      ELSE Len(comments))
    IN  IF \E i \in DOMAIN firstN : Raises(firstN[i])
        THEN [posts |-> <<>>, fetches |-> 2]
        ELSE [posts |-> Extracted(firstN), fetches |-> 2]

\* a collector call: its method and arguments
Collecting(op, sort_by, listing) == [op |-> op, sort_by |-> sort_by, listing |-> listing]

Returned(kind, items) == [kind |-> kind, items |-> items]

\* a method of the collector is called: its first statement is
\* self.rate_limiter.wait_if_needed()
Enter(op, sort_by, listing) ==
    /\ cpc = "idle"
    /\ Len(released) < MaxCalls
    /\ cpc' = "admit"
    /\ ccall' = Collecting(op, sort_by, listing)
    /\ base' = Len(released)
    /\ UNCHANGED <<fetches, cret>>
    /\ UNCHANGED <<limiterVars, storeVars, listed, analyzerVars, sideVars>>

CollectPosts(sort_by, listing) == Enter("collect_posts", sort_by, listing)

CollectComments(tree) == Enter("collect_comments", "", <<tree>>)

GetSubredditInfo == Enter("get_subreddit_info", "", <<>>)

\* wait_if_needed of the collector's own limiter, which is below its limit
Admit ==
    /\ cpc = "admit"
    /\ Len(released) = base
    /\ AdmitNoWait

\* the rest of the method, once wait_if_needed has returned
Leave(op, res, kind) ==
    /\ cpc = "admit"
    /\ Len(released) = base + 1
    /\ ccall.op = op
    /\ cpc' = "idle"
    /\ fetches' = fetches + res.fetches
    /\ cret' = Returned(kind, res.posts)
    /\ UNCHANGED <<ccall, base>>
    /\ UNCHANGED <<limiterVars, storeVars, listed, analyzerVars, sideVars>>

PostsBody == Leave("collect_posts", collect_posts(ccall.sort_by, ccall.listing), "list")

CommentsBody(max_comments) ==
    Leave("collect_comments", collect_comments(ccall.listing[1], max_comments), "list")

\* get_subreddit_info: one request for the attributes of the subreddit
InfoBody == Leave("get_subreddit_info", [posts |-> <<>>, fetches |-> 1], "dict")

----------------------------------------------------------------------------
(* EngagementAnalyzer. A float is the exact fraction it stands for, a pair  *)
(* of a numerator and a positive denominator; upvote_ratio is given in      *)
(* hundredths.                                                              *)

\* discussion_score and agreement_score are out of 100
Percent == 100

Frac(n, d) == [num |-> n, den |-> d]

\* a * b, a + b, a / k for an integer k > 0, min(a, b) and a <= b of fractions
Times(a, b) == Frac(a.num * b.num, a.den * b.den)
Plus(a, b) == Frac(a.num * b.den + b.num * a.den, a.den * b.den)
Over(a, k) == Frac(a.num, a.den * k)
AtMost(a, b) == a.num * b.den <= b.num * a.den
Least(a, b) == IF AtMost(a, b) THEN a ELSE b
Same(a, b) == a.num * b.den = b.num * a.den

\* max(post['score'], 1)
max(a, b) == IF a >= b THEN a ELSE b

\* a post dictionary, as far as the analyzer reads it, and its title
Post(score, num_comments, upvote_ratio, title) ==
    [score |-> score, num_comments |-> num_comments, upvote_ratio |-> upvote_ratio,
     title |-> title]

\* (the quality without the cap of the discussion score)
quality_uncapped(p) ==
    LET score == max(p.score, 1)
        comment_ratio == Frac(p.num_comments, score)
        upvote_ratio == Frac(p.upvote_ratio, Percent)
        discussion_score == Times(comment_ratio, Frac(Percent, 1))
        agreement_score == Times(upvote_ratio, Frac(Percent, 1))
    IN  Over(Plus(discussion_score, agreement_score), 2)

\* EngagementAnalyzer.calculate_engagement_quality
calculate_engagement_quality(p) ==
    LET score == max(p.score, 1)
        comment_ratio == Frac(p.num_comments, score)
        upvote_ratio == Frac(p.upvote_ratio, Percent)
        discussion_score == Least(Times(comment_ratio, Frac(Percent, 1)), Frac(Percent, 1))
        agreement_score == Times(upvote_ratio, Frac(Percent, 1))
    IN  Over(Plus(discussion_score, agreement_score), 2)

\* the analyzer is given two posts and computes the quality of each
Analyze ==
    /\ quality = <<>>
    /\ quality' = <<calculate_engagement_quality(post), calculate_engagement_quality(twin)>>
    /\ UNCHANGED <<post, twin, elapsed, velocity>>
    /\ UNCHANGED <<limiterVars, storeVars, listed, collectorVars, sideVars>>

\* / 3600: the seconds of an hour
SecondsPerHour == 3600

\* age_hours = 0.1
AgeFloor == Frac(1, 10)

\* k / a for an integer k and a fraction a > 0
Under(k, a) == Frac(k * a.den, a.num)

\* EngagementAnalyzer.calculate_engagement_velocity, for a post created
\* `seconds` before datetime.now()
calculate_engagement_velocity(p, seconds) ==
    LET age == Frac(seconds, SecondsPerHour)
        age_hours == IF age.num <= 0 THEN AgeFloor ELSE age
    IN  [age_hours |-> age_hours,
         score_per_hour |-> Under(p.score, age_hours),
         comments_per_hour |-> Under(p.num_comments, age_hours)]

\* the analyzer computes the velocity of a post created `seconds` ago
Velocity(seconds) ==
    /\ velocity = <<>>
    /\ elapsed' = seconds
    /\ velocity' = <<calculate_engagement_velocity(post, seconds)>>
    /\ UNCHANGED <<post, twin, quality>>
    /\ UNCHANGED <<limiterVars, storeVars, listed, collectorVars, sideVars>>

----------------------------------------------------------------------------

\* no list_all was called
ListingUnused == listed = NoList

\* a collector that is constructed and never used
NoCollect == Collecting("none", "", <<>>)
CollectorUnused ==
    /\ cpc = "idle"
    /\ ccall = NoCollect
    /\ base = 0
    /\ fetches = 0
    /\ cret = Returned("none", <<>>)

\* no post is analysed
NoPost == Post(0, 0, 0, "")
AnalyzerUnused ==
    /\ post = NoPost
    /\ twin = NoPost
    /\ quality = <<>>
    /\ elapsed = 0
    /\ velocity = <<>>

\* the threads, and the collectors that exist side by side
Threads == {1, 2}
Collectors == {1, 2}

\* a thread outside wait_if_needed
NoLocals == [now |-> 0, kept |-> <<>>, wakeAt |-> 0]

\* no thread has called the limiter
ThreadsUnused ==
    /\ tpc = [t \in Threads |-> "idle"]
    /\ locals = [t \in Threads |-> NoLocals]

\* RedditDataCollector.__init__ of every collector: self.rate_limiter = RateLimiter()
PrivateUnused == private = [c \in Collectors |-> <<>>]

\* the caller keeps no record
HoldsNothing == held = None

\* extract_keywords was not called
ExtractorUnused ==
    /\ titles = <<>>
    /\ top_n = 0
    /\ keywords = <<>>

SidesUnused == ThreadsUnused /\ PrivateUnused /\ HoldsNothing /\ ExtractorUnused

\* DBContext.__init__ on a new database file: an empty table, no call made yet
InitStore ==
    /\ table = {}
    /\ pc = [p \in Procs |-> "idle"]
    /\ call = [p \in Procs |-> Called("none", NoKey, NoFields)]
    /\ existing = [p \in Procs |-> FALSE]
    /\ ret = [p \in Procs |-> RetNone]
    /\ again = [p \in Procs |-> "no"]

----------------------------------------------------------------------------
(* Specifications.                                                          *)

\* RateLimiter.__init__, for every max_requests >= 1 and time_window > 0 in the bounds
InitLimiter ==
    /\ maxRequests \in 1..MaxRequests
    /\ timeWindow \in 1..MaxWindow
    /\ requests = <<>>
    /\ clock = 0
    /\ lpc = "idle"
    /\ now = 0
    /\ wakeAt = 0
    /\ starts = <<>>
    /\ released = <<>>
    /\ InitStore
    /\ ListingUnused
    /\ CollectorUnused
    /\ AnalyzerUnused
    /\ SidesUnused

NextLimiter == AdmitNoWait \/ AdmitBeginWait \/ AdmitEndWait \/ Tick

SpecLimiter == InitLimiter /\ [][NextLimiter]_vars

\* time.sleep returns: a sleeping caller is eventually released
SpecLimiterFair == SpecLimiter /\ WF_vars(AdmitEndWait)


\* a new database and a limiter that is not used
InitDatabase ==
    /\ InitStore /\ LimiterUnused /\ ListingUnused /\ CollectorUnused /\ AnalyzerUnused
    /\ SidesUnused

\* one caller of the store
NextSingle ==
    \/ \E k \in Keys : \E f \in PayloadsFor(k) : Create(1, k, f)
    \/ \E k \in Keys : Read(1, k)
    \/ \E k \in Keys : \E f \in UpdatesFor(k) : Update(1, k, f)
    \/ \E k \in Keys : \E f \in PayloadsFor(k) : UpsertRead(1, k, f)
    \/ UpsertWrite(1)
    \/ \E k \in Keys : Delete(1, k)
    \/ Count(1)
    \/ ClearAll(1)

SpecSingle == InitDatabase /\ [][NextSingle]_vars

\* the sources count_by_source is asked for: the one of the keys and another
Sources == {"reddit", "hackernews"}

\* one caller that fills, counts and clears the store
NextCounting ==
    \/ \E k \in ListKeys : \E f \in {PFull, PBare} : Create(1, k, f)
    \/ \E k \in ListKeys : Read(1, k)
    \/ \E k \in ListKeys : Delete(1, k)
    \/ Count(1)
    \/ \E source \in Sources : CountBySource(1, source)
    \/ ClearAll(1)

SpecCounting == InitDatabase /\ [][NextCounting]_vars

\* concurrent callers of the store
NextConcurrent ==
    \E p \in Procs :
        \/ \E k \in Keys : \E f \in ConcPayloadsFor(k) : Create(p, k, f)
        \/ \E k \in RaceKeys : \E f \in ConcUpdatesFor(k) : Update(p, k, f)
        \/ \E k \in RaceKeys : \E f \in ConcPayloadsFor(k) : UpsertRead(p, k, f)
        \/ UpsertWrite(p)
        \/ \E k \in Keys : Delete(p, k)
        \/ ClearAll(p)

SpecConcurrent == InitDatabase /\ [][NextConcurrent]_vars

\* the arguments of list_all
Limits == {None, Some(0), Some(2)}
Orders == {"score", "created_at", "updated_at", "title", "id", "rank", "to_dict"}

\* one caller that fills the table over time and lists it
NextListing ==
    \/ listed = NoList /\ \E k \in ListKeys : Create(1, k, PListed(k))
    \/ listed = NoList /\ Update(1, K1, UDetails)
    \/ listed = NoList /\ Elapse
    \/ listed = NoList /\ \E n \in Limits : \E column \in Orders : \E ascending \in BOOLEAN :
            ListAll(1, n, column, ascending)
    \/ DropList

SpecListing == InitDatabase /\ [][NextListing]_vars

\* RedditDataCollector.__init__: a limiter of its own with the default limits
InitCollector ==
    /\ maxRequests = DefaultMaxRequests
    /\ timeWindow = DefaultTimeWindow
    /\ requests = <<>>
    /\ clock = 0
    /\ lpc = "idle"
    /\ now = 0
    /\ wakeAt = 0
    /\ starts = <<>>
    /\ released = <<>>
    /\ InitStore
    /\ ListingUnused
    /\ CollectorUnused
    /\ AnalyzerUnused
    /\ SidesUnused

\* what the external source serves: listings of one or two pages, comment trees
Listings == {<<<<R1, R2>>>>, <<<<R1, RBad, R3>>>>, <<<<R1>>, <<R2>>>>, <<<<>>>>}
Trees == {<<R1, RMore, R2>>, <<R1, RBad>>}
SortInputs == {"hot", "top", "best"}
MaxComments == 2

\* one caller of the collector
NextCollector ==
    \/ \E sort_by \in SortInputs : \E listing \in Listings : CollectPosts(sort_by, listing)
    \/ \E tree \in Trees : CollectComments(tree)
    \/ GetSubredditInfo
    \/ Admit
    \/ PostsBody
    \/ \E max_comments \in 1..MaxComments : CommentsBody(max_comments)
    \/ InfoBody

SpecCollector == InitCollector /\ [][NextCollector]_vars

\* the posts the analyzer is given: any integer score, zero and negative ones
\* included, any num_comments from 0, any upvote_ratio from 0 to 1
Posts ==
    {Post(score, num_comments, upvote_ratio, title) :
        score \in -MaxScore..MaxScore, num_comments \in 0..MaxNumComments,
        upvote_ratio \in 0..Percent, title \in {"a", "b"}}

\* two posts that agree on score, num_comments and upvote_ratio
InitAnalyzer ==
    /\ InitStore
    /\ LimiterUnused
    /\ ListingUnused
    /\ CollectorUnused
    /\ post \in Posts
    /\ twin \in {t \in Posts : /\ t.score = post.score
                               /\ t.num_comments = post.num_comments
                               /\ t.upvote_ratio = post.upvote_ratio}
    /\ quality = <<>>
    /\ elapsed = 0
    /\ velocity = <<>>
    /\ SidesUnused

NextAnalyzer == Analyze

SpecAnalyzer == InitAnalyzer /\ [][NextAnalyzer]_vars

\* the seconds between the creation of a post and the call: a post from the
\* future, a post of this second, posts younger than six minutes, a post of
\* six minutes and older ones
Ages == {-60, 0, 1, 180, 359, 360, 361, 7200}

NextVelocity == \E seconds \in Ages : Velocity(seconds)

SpecVelocity == InitAnalyzer /\ [][NextVelocity]_vars

----------------------------------------------------------------------------
(* TopicExtractor.extract_keywords. A title is a string; a character is a  *)
(* string of length one.                                                    *)

UpperCase == "ABCDEFGHIJKLMNOPQRSTUVWXYZ"
LowerCase == "abcdefghijklmnopqrstuvwxyz"
Digits == "0123456789"

\* the character of s at position i
At(s, i) == SubSeq(s, i, i)

Chars(s) == {At(s, i) : i \in 1..Len(s)}

\* [a-zA-Z]
Letters == Chars(UpperCase) \cup Chars(LowerCase)

IsLetter(c) == c \in Letters

\* \w, the characters on the word side of \b
WordChars == Letters \cup Chars(Digits) \cup {"_"}

IsWord(c) == c \in WordChars

\* the lower-case letter of every upper-case letter
Lowered == [c \in Chars(UpperCase) |->
               At(LowerCase, CHOOSE i \in 1..Len(UpperCase) : At(UpperCase, i) = c)]

\* str.lower() on one character
lower_char(c) == IF c \in DOMAIN Lowered THEN Lowered[c] ELSE c

RECURSIVE lower(_)
\* str.lower()
lower(s) == IF s = "" THEN "" ELSE lower_char(At(s, 1)) \o lower(Tail(s))

RECURSIVE join_unseparated(_)
\* (''.join: the last word of a title runs into the first word of the next)
join_unseparated(ts) ==
    IF ts = <<>> THEN "" ELSE ts[1] \o join_unseparated(Tail(ts))

RECURSIVE join(_)
\* ' '.join([post['title'] for post in posts])
join(ts) ==
    IF ts = <<>> THEN ""
    ELSE IF Len(ts) = 1 THEN ts[1]
    ELSE ts[1] \o " " \o join(Tail(ts))

\* {3,}: the least number of letters of a match
MinLetters == 3

\* \b at position i of text: exactly one of the characters before and at i
\* is a word character
boundary(text, i) ==
    (i > 1 /\ IsWord(At(text, i - 1))) # (i <= Len(text) /\ IsWord(At(text, i)))

RECURSIVE run_end(_, _)
\* the last position of the letters that start at i (i - 1 when there is none)
run_end(text, i) ==
    IF i <= Len(text) /\ IsLetter(At(text, i)) THEN run_end(text, i + 1) ELSE i - 1

RECURSIVE findall(_, _)
\* re.findall(r'\b[a-zA-Z]{3,}\b', text) from position i: the matches from
\* left to right, without overlap. A match starts at a \b, takes the letters
\* that follow and ends at a \b; a shorter run of the same letters never ends
\* at a \b, so backtracking finds nothing.
findall(text, i) ==
    IF i > Len(text) THEN <<>>
    ELSE LET j == run_end(text, i)
         IN IF /\ boundary(text, i)
               /\ j - i + 1 >= MinLetters
               /\ boundary(text, j + 1)
            THEN <<SubSeq(text, i, j)>> \o findall(text, j + 1)
            ELSE findall(text, i + 1)

STOP_WORDS ==
    {"the", "is", "in", "and", "to", "of", "for", "with", "on", "this",
     "that", "are", "was", "be", "by", "at", "from", "or", "an", "as",
     "it", "can", "will", "but", "not", "you", "your", "we", "my", "me",
     "i", "a", "has", "have", "had", "what", "when", "where", "who", "how"}

\* [w for w in words if w not in TopicExtractor.STOP_WORDS]
remove_stop_words(words) == SelectSeq(words, LAMBDA w : w \notin STOP_WORDS)

\* the number of times w is in words
Occurs(words, w) == Cardinality({i \in DOMAIN words : words[i] = w})

\* Counter(words): one entry for each word, in the order the words were
\* first seen
Counter(words) ==
    LET firsts == SelectSeq([i \in DOMAIN words |-> i],
                            LAMBDA i : \A j \in 1..(i - 1) : words[j] # words[i])
    IN [k \in DOMAIN firsts |->
           [word |-> words[firsts[k]], count |-> Occurs(words, words[firsts[k]])]]

\* seq without its element at position i
Without(seq, i) == SubSeq(seq, 1, i - 1) \o SubSeq(seq, i + 1, Len(seq))

RECURSIVE most_common(_, _)
\* Counter.most_common(n): the n entries of highest count, the highest first,
\* entries of equal count in the order of the counter
most_common(counts, n) ==
    IF n <= 0 \/ counts = <<>> THEN <<>>
    ELSE LET i == CHOOSE i \in DOMAIN counts :
                      /\ \A j \in DOMAIN counts : counts[j].count <= counts[i].count
                      /\ \A j \in 1..(i - 1) : counts[j].count < counts[i].count
         IN <<counts[i]>> \o most_common(Without(counts, i), n - 1)

\* (extract_keywords without the stop-word filter)
extract_keywords_unfiltered(ts, n) ==
    most_common(Counter(findall(lower(join(ts)), 1)), n)

\* TopicExtractor.extract_keywords
extract_keywords(ts, n) ==
    most_common(Counter(remove_stop_words(findall(lower(join(ts)), 1))), n)

\* a call of extract_keywords
Extract ==
    /\ keywords = <<>>
    /\ keywords' = extract_keywords(titles, top_n)
    /\ UNCHANGED <<titles, top_n>>
    /\ UNCHANGED <<limiterVars, storeVars, listed, collectorVars, analyzerVars>>
    /\ UNCHANGED <<threadVars, private, held>>

MaxTitles == 3
MaxTopN == 3

\* the titles of the posts: words in both cases, stop words, words of fewer
\* than three letters, and letters next to a digit, an underscore, an
\* apostrophe and a hyphen
TitlePool ==
    {"Best Python tips", "Python tips and tricks", "Best practices",
     "python3 is not Python", "Don't be a py_thon fan-boy", "An AI for the tips"}

\* extract_keywords was not called yet, for every list of titles and every
\* top_n in the bounds
InitExtractor ==
    /\ InitStore
    /\ LimiterUnused
    /\ ListingUnused
    /\ CollectorUnused
    /\ AnalyzerUnused
    /\ ThreadsUnused /\ PrivateUnused /\ HoldsNothing
    /\ titles \in UNION {[1..m -> TitlePool] : m \in 0..MaxTitles}
    /\ top_n \in 0..MaxTopN
    /\ keywords = <<>>

NextExtractor == Extract

SpecExtractor == InitExtractor /\ [][NextExtractor]_vars

\* A call of collector c reaches self.rate_limiter.wait_if_needed(): the
\* limiter is the one its own __init__ made, with the default limits, and it
\* sees the calls of c alone. The clock stands still here, so a call that
\* finds its window full sleeps and does not return.
PrivateAdmit(c) ==
    /\ LET kept == Prune(private[c], clock, timeWindow) IN
        /\ ~AtLimit(kept, maxRequests)
        /\ private' = [private EXCEPT ![c] = Append(kept, clock)]
    /\ UNCHANGED <<limiterVars, storeVars, listed, collectorVars, analyzerVars>>
    /\ UNCHANGED <<threadVars, held, extractorVars>>

\* several collectors that draw on the quota of one Reddit application
NextCollectors == \E c \in Collectors : PrivateAdmit(c)

SpecCollectors == InitCollector /\ [][NextCollectors]_vars

\* wait_if_needed called by thread t. The method takes no lock, so the threads
\* interleave between its statements. Lines 41-45, the right-hand side: `now`
\* is read and the list comprehension builds the filtered list.
ThreadFilter(t) ==
    /\ tpc[t] = "idle"
    /\ Len(starts) < MaxThreadCalls
    /\ tpc' = [tpc EXCEPT ![t] = "filtered"]
    /\ locals' = [locals EXCEPT ![t] =
            [now |-> clock, kept |-> Prune(requests, clock, timeWindow), wakeAt |-> 0]]
    /\ starts' = Append(starts, clock)
    /\ UNCHANGED <<maxRequests, timeWindow, requests, clock, lpc, now, wakeAt, released>>
    /\ UNCHANGED <<storeVars, listed, collectorVars, analyzerVars, private, held, extractorVars>>

\* line 45, the assignment: self.requests = <the filtered list>
ThreadAssign(t) ==
    /\ tpc[t] = "filtered"
    /\ tpc' = [tpc EXCEPT ![t] = "assigned"]
    /\ requests' = locals[t].kept
    /\ UNCHANGED <<maxRequests, timeWindow, clock, lpc, now, wakeAt, starts, released>>
    /\ UNCHANGED <<locals, storeVars, listed, collectorVars, analyzerVars, private, held, extractorVars>>

\* lines 48-52: the test of the limit on self.requests as it is now, and the
\* start of time.sleep
ThreadCheck(t) ==
    /\ tpc[t] = "assigned"
    /\ IF AtLimit(requests, maxRequests) /\ SleepTime(requests, locals[t].now, timeWindow) > 0
       THEN /\ tpc' = [tpc EXCEPT ![t] = "sleeping"]
            /\ locals' = [locals EXCEPT ![t].wakeAt =
                    clock + SleepTime(requests, locals[t].now, timeWindow) + Margin]
       ELSE /\ tpc' = [tpc EXCEPT ![t] = "append"]
            /\ UNCHANGED locals
    /\ UNCHANGED limiterVars
    /\ UNCHANGED <<storeVars, listed, collectorVars, analyzerVars, private, held, extractorVars>>

\* line 53: time.sleep has returned, self.requests = []
ThreadWake(t) ==
    /\ tpc[t] = "sleeping"
    /\ clock >= locals[t].wakeAt
    /\ tpc' = [tpc EXCEPT ![t] = "append"]
    /\ requests' = <<>>
    /\ UNCHANGED <<maxRequests, timeWindow, clock, lpc, now, wakeAt, starts, released>>
    /\ UNCHANGED <<locals, storeVars, listed, collectorVars, analyzerVars, private, held, extractorVars>>

\* line 55: self.requests.append(now), and the return
ThreadAppend(t) ==
    /\ tpc[t] = "append"
    /\ tpc' = [tpc EXCEPT ![t] = "idle"]
    /\ requests' = Append(requests, locals[t].now)
    /\ released' = Append(released, clock)
    /\ UNCHANGED <<maxRequests, timeWindow, clock, lpc, now, wakeAt, starts>>
    /\ UNCHANGED <<locals, storeVars, listed, collectorVars, analyzerVars, private, held, extractorVars>>

\* threads that call wait_if_needed of one RateLimiter, and the clock
NextThreads ==
    \/ \E t \in Threads :
            \/ ThreadFilter(t)
            \/ ThreadAssign(t)
            \/ ThreadCheck(t)
            \/ ThreadWake(t)
            \/ ThreadAppend(t)
    \/ clock < MaxThreadClock /\ Tick

\* one RateLimiter(max_requests, time_window=0.1 s) that the threads share
InitThreads ==
    /\ InitLimiter
    /\ maxRequests <= 2
    /\ timeWindow = 1

SpecThreads == InitThreads /\ [][NextThreads]_vars

\* one caller of the store while time passes
NextTimed ==
    \/ \E f \in {PFull, PBare} : Create(1, K1, f)
    \/ \E k \in Keys : \E f \in {UTitle, UNothing, UProcessed} : Update(1, k, f)
    \/ \E f \in {PFull, PBare} : UpsertRead(1, K1, f)
    \/ UpsertWrite(1)
    \/ Delete(1, K1)
    \/ Elapse

SpecTimed == InitDatabase /\ [][NextTimed]_vars

\* the record object a call returns: the row as the session loaded it
\* (expire_on_commit=False), or None
Returns(res) ==
    IF res.ret.kind = "record"
    THEN Some(CHOOSE r \in res.table : r.id = res.ret.n)
    ELSE None

\* a call of the single caller, who keeps the record object it returns
Obtain(op, k, f, res) ==
    /\ pc[1] = "idle"
    /\ IdsLeft(res)
    /\ table' = res.table
    /\ ret' = [ret EXCEPT ![1] = res.ret]
    /\ call' = [call EXCEPT ![1] = Called(op, k, f)]
    /\ held' = Returns(res)
    /\ UNCHANGED <<pc, existing, again>>
    /\ UNCHANGED <<limiterVars, listed, collectorVars, analyzerVars>>
    /\ UNCHANGED <<threadVars, private, extractorVars>>

ObtainCreate(k, f) == Obtain("create", k, f, create(table, k, f))

ObtainRead(k) ==
    Obtain("read", k, NoFields,
           [table |-> table,
            ret |-> IF read(table, k) = None THEN RetNone ELSE RetRecord(read(table, k)[1].id)])

ObtainUpdate(k, f) == Obtain("update", k, f, update(table, k, f))

\* upsert of a caller with no other caller between its read and its write
ObtainUpsert(k, f) ==
    Obtain("upsert", k, f, upsert_write(table, read(table, k) # None, k, f))

\* (a session that stays open: the object stays attached and the next flush
\* writes the caller's assignment)
close_leaving_attached(rows, old, new) ==
    IF old \in rows THEN (rows \ {old}) \cup {new} ELSE rows

\* get_session, finally: session.close(). The returned object is detached:
\* an assignment to it reaches no session, and every later call queries the
\* table in a session of its own.
close(rows, old, new) == rows

\* a title that no call supplies: the one the caller assigns
ChangedTitle == "T3"

\* the caller assigns a title to the record object it holds
Change(t) ==
    /\ held # None
    /\ held[1].title # t
    /\ held' = Some([held[1] EXCEPT !.title = t])
    /\ table' = close(table, held[1], [held[1] EXCEPT !.title = t])
    /\ UNCHANGED <<pc, call, existing, ret, again>>
    /\ UNCHANGED <<limiterVars, listed, collectorVars, analyzerVars>>
    /\ UNCHANGED <<threadVars, private, extractorVars>>

\* one caller that changes the records it was given
NextCaller ==
    \/ \E k \in Keys : \E f \in ConcPayloadsFor(k) : ObtainCreate(k, f)
    \/ \E k \in Keys : ObtainRead(k)
    \/ \E k \in Keys : ObtainUpdate(k, UDetails)
    \/ \E k \in Keys : \E f \in ConcPayloadsFor(k) : ObtainUpsert(k, f)
    \/ Change(ChangedTitle)
    \/ \E k \in Keys : Delete(1, k)

SpecCaller == InitDatabase /\ [][NextCaller]_vars

\* the arguments of the caller whose calls may fault
FaultPayloadsFor(k) == IF k = K1 THEN {PFull, PUntitled} ELSE {PBare}
FaultPositions == {"query", "commit", "refresh"}

\* one caller of the store, with a storage engine that can raise at any statement
NextFaulty ==
    \/ \E k \in Keys : \E f \in FaultPayloadsFor(k) : Create(1, k, f)
    \/ \E k \in Keys : Update(1, k, UTitle)
    \/ \E k \in Keys : \E f \in FaultPayloadsFor(k) : UpsertRead(1, k, f)
    \/ UpsertWrite(1)
    \/ \E k \in Keys : Delete(1, k)
    \/ ClearAll(1)
    \/ \E k \in Keys : \E f \in FaultPayloadsFor(k) : \E at \in FaultPositions :
            CreateFault(1, k, f, at)
    \/ \E k \in Keys : \E at \in FaultPositions : UpdateFault(1, k, UTitle, at)
    \/ \E k \in Keys : \E at \in FaultPositions : DeleteFault(1, k, at)
    \/ \E at \in FaultPositions : ClearAllFault(1, at)
    \/ \E k \in Keys : \E f \in FaultPayloadsFor(k) : UpsertReadFault(1, k, f)
    \/ \E at \in FaultPositions : UpsertWriteFault(1, at)

SpecFaulty == InitDatabase /\ [][NextFaulty]_vars

----------------------------------------------------------------------------
(* Claims about the RateLimiter, checked under SpecLimiter.                 *)

\* the calls released in the trailing window (t - timeWindow, t]
ReleasedWithin(t) ==
    {i \in 1..Len(released) : released[i] > t - timeWindow /\ released[i] <= t}

\* C1: for a single caller, at most max_requests calls are released (return
\* from wait_if_needed) within any trailing interval of length time_window,
\* measured by the time each call actually returns.
C1_AtMostNPerWindow ==
    \A j \in 1..Len(released) :
        Cardinality(ReleasedWithin(released[j])) <= maxRequests

----------------------------------------------------------------------------
(* Claims about the record store.                                           *)

\* a metrics argument as the mapping it stands for
ArgMap(m) == IF m = None THEN {} ELSE m[1]

\* the row carries exactly the arguments f of a create or an upsert
Carries(r, f) ==
    /\ r.title = f.title[1]
    /\ r.description = f.description
    /\ r.tags = f.tags
    /\ r.score = f.score
    /\ get_score_dict(r) = ArgMap(f.score_dictionary)

\* the caller completes an upsert in this step
UpsertReturns(p) == pc[p] = "upsert" /\ pc'[p] = "idle"

\* C3: after any sequence of create, update, upsert, delete and clear_all calls,
\* interleaved from concurrent callers, no two rows of the table have the same
\* (source, source_id).
C3_UniqueKey ==
    \A r1 \in table : \A r2 \in table :
        (r1.source = r2.source /\ r1.source_id = r2.source_id) => r1 = r2

\* a create of one caller committed between the read and the write of the
\* other caller's upsert of the same key, and one row is stored
C3_Witness ==
    /\ pc[1] = "idle" /\ call[1].op = "upsert" /\ ~existing[1] /\ ret[1] = RetNone
    /\ call[2].op = "create" /\ call[2].key = call[1].key /\ ret[2].kind = "record"
    /\ Cardinality(filter_by(table, call[1].key)) = 1
    /\ Cardinality(table) = 2

\* C4: create with a (source, source_id) that is stored returns None and leaves
\* the table as it was: the stored row keeps every field and count() is unchanged.
C4_CreateConflict ==
    [][(call'[1].op = "create" /\ filter_by(table, call'[1].key) # {})
        => (ret'[1] = RetNone /\ table' = table /\ count(table') = count(table))]_vars

\* a create was refused and the stored row has another title than the one offered
C4_Witness ==
    /\ call[1].op = "create" /\ ret[1] = RetNone
    /\ \E r \in filter_by(table, call[1].key) : r.title # call[1].f.title[1]

\* C5: an upsert of a key that is not stored adds one row; an upsert repeated
\* with identical arguments right after the first leaves count() as it is and
\* the title, description, tags, score and metrics as the first call left them;
\* either way exactly one row of the key is stored.
C5_UpsertIdempotent ==
    [][UpsertReturns(1) =>
        LET k == call[1].key IN
        /\ Cardinality(filter_by(table', k)) = 1
        /\ ~existing[1] => count(table') = count(table) + 1
        /\ again[1] # "no" =>
            /\ count(table') = count(table)
            /\ \A r \in filter_by(table, k) : \A n \in filter_by(table', k) :
                /\ n.title = r.title /\ n.description = r.description
                /\ n.tags = r.tags /\ n.score = r.score
                /\ get_score_dict(n) = get_score_dict(r)]_vars

\* the second of two identical upserts has returned, the first having created the row
C5_Witness ==
    /\ pc[1] = "idle" /\ call[1].op = "upsert" /\ again[1] = "created"
    /\ existing[1] /\ ret[1].kind = "record"

\* C6 as stated: after an upsert returns to a single caller, read of the key
\* yields a record whose title, description, tags, score and metrics equal the
\* arguments of the call, whatever the earlier record held.
C6_UpsertStoresArguments ==
    [][UpsertReturns(1) =>
        LET record == read(table', call[1].key)
        IN  record # None /\ Carries(record[1], call[1].f)]_vars

\* the value of an optional column after an upsert: the argument when it is
\* supplied, the earlier value when a row was stored, absent otherwise
Kept(arg, old, column) ==
    IF arg # None THEN arg ELSE IF old # None THEN old[1][column] ELSE None

\* C6 as amended: after an upsert returns to a single caller, read of the key
\* yields a record whose fields equal the arguments that were supplied; for an
\* argument that was omitted (None) the record keeps the value stored before
\* the call, and holds no value (an empty metrics mapping) when the key is new.
C6_UpsertStoresSupplied ==
    [][UpsertReturns(1) =>
        LET f == call[1].f
            old == read(table, call[1].key)
            record == read(table', call[1].key)
        IN  /\ record # None
            /\ record[1].title = f.title[1]
            /\ record[1].description = Kept(f.description, old, "description")
            /\ record[1].tags = Kept(f.tags, old, "tags")
            /\ record[1].score = Kept(f.score, old, "score")
            /\ get_score_dict(record[1]) =
                IF f.score_dictionary # None THEN f.score_dictionary[1]
                ELSE IF old # None THEN get_score_dict(old[1]) ELSE {}]_vars

\* an upsert that omits description, tags, score and metrics has returned on a
\* key whose row held them
C6_Witness ==
    /\ pc[1] = "idle" /\ call[1].op = "upsert" /\ call[1].f = PBare
    /\ existing[1] /\ ret[1].kind = "record"
    /\ \E r \in filter_by(table, call[1].key) :
        r.title = "T2" /\ r.description = Some("D1") /\ get_score_dict(r) = MOne[1]

\* C7: for every metrics mapping m, the empty one included, a create or an
\* upsert with score_dictionary = m that returns a record is followed by a read
\* of the key whose get_score_dict() has exactly the keys and values of m.
C7_MetricsRoundTrip ==
    [][(/\ \/ call'[1].op = "create" /\ ret'[1].kind = "record"
           \/ UpsertReturns(1) /\ ret'[1].kind = "record"
        /\ call'[1].f.score_dictionary # None)
        => LET record == read(table', call'[1].key)
           IN  record # None
               /\ get_score_dict(record[1]) = call'[1].f.score_dictionary[1]]_vars

\* an upsert with the empty mapping has returned on a stored key, and the row
\* holds the encoded empty mapping
C7_Witness ==
    /\ pc[1] = "idle" /\ call[1].op = "upsert" /\ call[1].f.score_dictionary = MEmpty
    /\ existing[1] /\ ret[1].kind = "record"
    /\ \E r \in filter_by(table, call[1].key) :
        r.score_dictionary # None /\ get_score_dict(r) = {}

\* C8: an update of a stored key overwrites exactly the fields that are
\* supplied; title, description, tags, score, metrics and processed keep their
\* value when not supplied, and every other row is unchanged.
C8_PartialUpdate ==
    [][(call'[1].op = "update" /\ ret'[1].kind = "record") =>
        LET f == call'[1].f
            old == read(table, call'[1].key)
            new == read(table', call'[1].key)
        IN  /\ old # None /\ new # None
            /\ new[1].id = old[1].id
            /\ new[1].title = IF f.title # None THEN f.title[1] ELSE old[1].title
            /\ new[1].description = Kept(f.description, old, "description")
            /\ new[1].tags = Kept(f.tags, old, "tags")
            /\ new[1].score = Kept(f.score, old, "score")
            /\ IF f.score_dictionary # None
               THEN get_score_dict(new[1]) = f.score_dictionary[1]
               ELSE new[1].score_dictionary = old[1].score_dictionary
            /\ new[1].processed =
                IF f.processed # None THEN f.processed[1] ELSE old[1].processed
            /\ table' \ {new[1]} = table \ {old[1]}]_vars

\* an update of the title alone has returned: the row has the new title, the
\* description, tags, score and metrics it was created with, and another row is stored
C8_Witness ==
    /\ call[1].op = "update" /\ call[1].f = UTitle /\ ret[1].kind = "record"
    /\ \E r \in filter_by(table, call[1].key) :
        /\ r.title = "T2" /\ r.description = Some("D1") /\ r.tags = Some("g1")
        /\ r.score = Some(10) /\ get_score_dict(r) = MOne[1]
    /\ Cardinality(table) = 2

\* C9: two callers upsert the same key and both read 'not found'. The first
\* write creates the row with that caller's arguments; the second write returns
\* None and changes nothing, so one row of the key is stored and it carries the
\* arguments of one caller.
C9_RaceOneWinner ==
    [][\A p \in Procs : \A q \in Procs \ {p} :
        (/\ UpsertReturns(p) /\ ~existing[p]
         /\ call[q].op = "upsert" /\ call[q].key = call[p].key /\ ~existing[q]
         /\ \/ pc[q] = "upsert"
            \/ pc[q] = "idle" /\ ret[q].kind = "record"
                 /\ filter_by(table, call[p].key) # {})
        => LET rows == filter_by(table', call[p].key) IN
           /\ Cardinality(rows) = 1
           /\ ret'[p].kind \in {"record", "none"}
           /\ IF pc[q] = "upsert"
              THEN ret'[p].kind = "record" /\ \A r \in rows : Carries(r, call[p].f)
              ELSE ret'[p] = RetNone /\ table' = table
                   /\ \A r \in rows : Carries(r, call[q].f)]_vars

\* both callers have returned from upserts of one key with different arguments,
\* both had read 'not found', one created the row and the other got None
C9_Witness ==
    /\ pc[1] = "idle" /\ pc[2] = "idle"
    /\ call[1].op = "upsert" /\ call[2].op = "upsert"
    /\ call[1].key = call[2].key /\ call[1].f # call[2].f
    /\ ~existing[1] /\ ~existing[2]
    /\ ret[1].kind = "record" /\ ret[2] = RetNone
    /\ \A r \in filter_by(table, call[1].key) : Carries(r, call[1].f)
    /\ Cardinality(filter_by(table, call[1].key)) = 1

\* C10: upsert returns a record, never None, under every interleaving with
\* concurrent upsert, create or delete calls on the same key.
C10_UpsertReturnsRecord ==
    \A p \in Procs :
        (pc[p] = "idle" /\ call[p].op = "upsert") => ret[p].kind = "record"

\* C12: update of a (source, source_id) that is not stored returns None and
\* leaves the table as it was: no row is created and none is modified.
C12_UpdateNotFound ==
    [][(call'[1].op = "update" /\ filter_by(table, call'[1].key) = {})
        => (ret'[1] = RetNone /\ table' = table)]_vars

\* an update of a key that is not stored returned None while another row is stored
C12_Witness ==
    /\ call[1].op = "update" /\ ret[1] = RetNone
    /\ filter_by(table, call[1].key) = {}
    /\ table # {}

\* the rows of the other keys
Others(rows, k) == rows \ filter_by(rows, k)

\* C13: delete returns True exactly when a row of the key was stored before the
\* call; after it the key is not found, count() is lower by one when True and
\* unchanged when False, and the rows of other keys are unchanged.
C13_Delete ==
    [][call'[1].op = "delete" =>
        LET k == call'[1].key
            had == filter_by(table, k) # {}
        IN  /\ ret'[1] = RetBool(had)
            /\ read(table', k) = None
            /\ count(table') = count(table) - (IF had THEN 1 ELSE 0)
            /\ Others(table', k) = Others(table, k)]_vars

\* a delete removed the row of its key and the row of another key is still stored
C13_Witness ==
    /\ call[1].op = "delete" /\ ret[1] = RetBool(TRUE)
    /\ filter_by(table, call[1].key) = {}
    /\ table # {}

\* C11: create, update, upsert, delete and clear_all are atomic under faults: a
\* call in which the storage engine raises (anything but the uniqueness
\* conflict) propagates the fault and leaves the table exactly as it was
\* before the call.
C11_AtomicUnderFaults ==
    [][(ret'[1] = StorageFault /\ (call'[1] # call[1] \/ pc'[1] # pc[1] \/ ret'[1] # ret[1]))
        => table' = table]_vars

\* C19: create or upsert with an empty title is rejected as a usage fault and
\* stores nothing: the table, and so count(), is as before the call.
C19_EmptyTitleRejected ==
    [][(/\ call'[1].op \in {"create", "upsert"}
        /\ call'[1].f.title = Some("")
        /\ pc'[1] = "idle"
        /\ ret'[1] # StorageFault)
        => (ret'[1] = UsageFault /\ table' = table)]_vars

\* the smaller of two numbers
Min(a, b) == IF a < b THEN a ELSE b

\* the records of a list are rows of the table, each once, in the order of the
\* column, and no row left out comes before one that is in the list
FirstSorted(records, rows, column, ascending) ==
    /\ \A i \in DOMAIN records : records[i] \in rows
    /\ \A i, j \in DOMAIN records : i < j =>
        /\ records[i] # records[j]
        /\ IF ascending THEN NotAfter(records[i], records[j], column)
           ELSE NotAfter(records[j], records[i], column)
    /\ \A r \in rows : (\A i \in DOMAIN records : records[i] # r) =>
        \A i \in DOMAIN records :
            IF ascending THEN NotAfter(records[i], r, column)
            ELSE NotAfter(r, records[i], column)

\* C14: list_all(limit=n, order_by=k, ascending=a) with k among score,
\* created_at and updated_at returns the first min(n, count()) records of the
\* table sorted by k in the requested direction; for scores 10, 50, 30 and
\* limit 2 descending these are the records with scores 50 and 30 in that order.
C14_ListFirstSorted ==
    [][(/\ listed' # listed /\ listed' # NoList
        /\ listed'.order_by \in {"score", "created_at", "updated_at"}
        /\ listed'.limit # None)
        => (/\ listed'.kind = "records"
            /\ Len(listed'.records) = Min(listed'.limit[1], count(table))
            /\ FirstSorted(listed'.records, table, listed'.order_by, listed'.ascending))]_vars

\* C15: list_all with an order_by outside score, created_at and updated_at
\* ('title', 'id', or a name that is no field) returns the records ordered by
\* score, as order_by='score' would.
C15_UnknownOrderIsScore ==
    [][(/\ listed' # listed /\ listed' # NoList
        /\ listed'.order_by \notin {"score", "created_at", "updated_at"})
        => \E l \in list_all(table, listed'.limit, "score", listed'.ascending) :
                /\ listed'.kind = l.kind
                /\ listed'.records = l.records]_vars

\* C16: every fetch the collector issues (each listing request of
\* collect_posts, the submission and comment-tree requests of collect_comments,
\* the request of get_subreddit_info) is preceded by a wait_if_needed of its
\* own: the fetches issued never exceed the wait_if_needed calls that returned.
C16_FetchesAdmitted == fetches <= Len(released)

\* the collector call that returns in this step
Leaves(op) == cpc = "admit" /\ cpc' = "idle" /\ ccall.op = op

\* C17: collect_posts with a sort_by outside hot, new, top, rising reports a
\* usage fault at once: what the caller gets differs from the empty list of a
\* successful empty collection, nothing is fetched, and wait_if_needed has not
\* admitted or delayed the call.
C17_InvalidSortReported ==
    [][(Leaves("collect_posts") /\ ccall.sort_by \notin SortKeys)
        => (/\ cret'.kind # "list"
            /\ fetches' = fetches
            /\ Len(released') = base)]_vars

\* the pages of a listing, one after the other
RECURSIVE Flatten(_)
Flatten(pages) == IF pages = <<>> THEN <<>> ELSE Head(pages) \o Flatten(Tail(pages))

\* C18: when the extraction of one item raises during collect_posts, only that
\* item is skipped: all other items of the listing, those after it included,
\* are returned in the order of the source.
C18_OnlyFailingItemSkipped ==
    [][(Leaves("collect_posts") /\ ccall.sort_by \in SortKeys)
        => cret'.items =
            Extracted(SelectSeq(Flatten(ccall.listing), LAMBDA raw : ~Raises(raw)))]_vars

\* a quality between 0 and 100
InRange(q) == q.den > 0 /\ q.num >= 0 /\ q.num <= Percent * q.den

\* C20: for every post (any integer score, zero and negative included, any
\* num_comments >= 0, any upvote_ratio in [0, 1]) the quality lies in [0, 100],
\* and two posts that agree on score, num_comments and upvote_ratio get the
\* same quality whatever their other fields are.
C20_QualityBounded ==
    quality # <<>> =>
        /\ InRange(quality[1])
        /\ InRange(quality[2])
        /\ (/\ post.score = twin.score
            /\ post.num_comments = twin.num_comments
            /\ post.upvote_ratio = twin.upvote_ratio) => Same(quality[1], quality[2])

\* the quality of two posts of negative score and different titles, with more
\* comments than the capped score, was computed
C20_Witness ==
    /\ quality # <<>>
    /\ post.score < 0
    /\ post.num_comments > 1
    /\ post.upvote_ratio = Percent
    /\ post.title # twin.title
    /\ Same(quality[1], Frac(Percent, 1))

\* C25: the timestamp wait_if_needed records for a call is the time at which
\* the call is released: for a call that waited, the recorded timestamp is not
\* earlier than the moment the wait ended.
C25_RecordsReleaseTime ==
    [][(lpc = "sleeping" /\ lpc' = "idle")
        => requests'[Len(requests')] >= released'[Len(released')]]_vars

\* the timestamps of the list that are newer than t - window
Newer(reqs, t, window) == SelectSeq(reqs, LAMBDA req : req > t - window)

\* C26: wait_if_needed first drops every timestamp not newer than
\* now - time_window; with fewer than max_requests left it does not wait and
\* appends exactly one timestamp; with max_requests or more left it waits
\* (oldest + time_window - now, plus the margin), discards the whole list and
\* appends exactly one timestamp, so the list holds one entry right after a
\* call that waited.
C26_PruneWaitAppend ==
    [][LET kept == Newer(requests, clock, timeWindow) IN
        /\ (lpc = "idle" /\ Len(starts') > Len(starts)) =>
            IF Len(kept) < maxRequests
            THEN /\ lpc' = "idle"
                 /\ Len(released') = Len(released) + 1
                 /\ requests' = Append(kept, requests'[Len(requests')])
            ELSE /\ lpc' = "sleeping"
                 /\ released' = released
                 /\ wakeAt' = kept[1] + timeWindow + Margin
        /\ (lpc = "sleeping" /\ lpc' = "idle") =>
            /\ Len(requests') = 1
            /\ Len(released') = Len(released) + 1
            /\ released'[Len(released')] >= wakeAt]_vars

\* a call that waited has returned: it was released later than it entered,
\* and the list holds one entry
C26_Witness ==
    /\ lpc = "idle"
    /\ Len(released) >= 2
    /\ Len(starts) = Len(released)
    /\ released[Len(released)] > starts[Len(starts)]
    /\ Len(requests) = 1

\* the calls that the limiters of the collectors in S admitted within the
\* trailing window
RECURSIVE AdmittedBy(_)
AdmittedBy(S) ==
    IF S = {} THEN 0
    ELSE LET c == CHOOSE x \in S : TRUE
         IN  Len(Newer(private[c], clock, timeWindow)) + AdmittedBy(S \ {c})

\* C22: collectors that draw on the same external quota share one RateLimiter,
\* so the calls admitted to all of them together never exceed max_requests
\* within a trailing time_window; no collector has a private limiter with the
\* full quota.
C22_SharedQuota == AdmittedBy(Collectors) <= maxRequests

\* how often a timestamp is in the list
Times_In(reqs, x) == Cardinality({i \in DOMAIN reqs : reqs[i] = x})

\* C23: when several threads call wait_if_needed of one RateLimiter, its prune,
\* check and append run as one critical section: in every interleaving no
\* recorded timestamp of the trailing window is lost from the list (the list
\* is emptied only by a call that waited), and the list never holds more than
\* max_requests timestamps of the trailing window.
C23_CriticalSection ==
    [][/\ Len(Newer(requests', clock', timeWindow)) <= maxRequests
       /\ (\A t \in Threads : ~(tpc[t] = "sleeping" /\ tpc'[t] = "append")) =>
            \A i \in DOMAIN requests :
                requests[i] > clock' - timeWindow =>
                    Times_In(requests', requests[i]) >= Times_In(requests, requests[i])]_vars

\* C24: upsert is one transaction: no create, update or delete of another
\* caller on the same key takes effect between upsert's existence check and
\* its write, so the branch upsert takes (update when the key was found, create
\* when it was not) matches the table at the moment of the write.
C24_UpsertOneTransaction ==
    [][\A p \in Procs :
        (pc[p] = "upsert" /\ pc'[p] = "idle")
            => (existing[p] <=> filter_by(table, call[p].key) # {})]_vars

\* the call of caller 1 that returns in this step is an update, or the write
\* of an upsert, of a key that is stored
OnExisting ==
    /\ \/ call'[1].op = "update" /\ (call'[1] # call[1] \/ ret'[1] # ret[1] \/ table' # table)
       \/ pc[1] = "upsert" /\ pc'[1] = "idle"
    /\ filter_by(table, call'[1].key) # {}

\* the row of the key of that call, before and after it
Before == first(filter_by(table, call'[1].key))[1]
After == first(filter_by(table', call'[1].key))[1]

\* C27: every successful update, and every upsert of a stored record,
\* refreshes updated_at, also when no field is supplied or every supplied value
\* equals the stored one; a call that returns None refreshes nothing.
C27_UpdatedAtRefreshed ==
    [][/\ (OnExisting /\ ret'[1].kind = "record") => After.updated_at = clock
       /\ (call'[1].op \in {"update", "create", "upsert"} /\ ret'[1] = RetNone
            /\ pc'[1] = "idle") => table' = table]_vars

\* C28: a record is created with processed = False; update and upsert of a
\* stored record leave its id and created_at unchanged, and leave processed
\* unchanged unless update is called with a processed value: an upsert of a
\* processed record does not reset processed.
C28_FrameOfUpdate ==
    [][/\ (/\ \/ call'[1].op = "create"
              \/ pc[1] = "upsert" /\ pc'[1] = "idle"
           /\ filter_by(table, call'[1].key) = {}
           /\ ret'[1].kind = "record") => After.processed = FALSE
       /\ OnExisting =>
            /\ After.id = Before.id
            /\ After.created_at = Before.created_at
            /\ After.processed =
                (IF call'[1].op = "update" /\ call'[1].f.processed # None
                 THEN call'[1].f.processed[1] ELSE Before.processed)]_vars

\* a processed record was upserted again later than it was created, and is
\* still processed
C28_Witness ==
    /\ call[1].op = "upsert" /\ pc[1] = "idle" /\ ret[1].kind = "record"
    /\ \E r \in filter_by(table, call[1].key) :
        /\ r.processed
        /\ r.created_at < clock
        /\ r.updated_at = clock
        /\ r.title = call[1].f.title[1]

\* C29: an update or upsert of a stored record with a score_dictionary m2
\* leaves exactly m2 stored: no key of the mapping stored before that is
\* absent from m2 survives, also when m2 is the empty mapping.
C29_MetricsReplaced ==
    [][(/\ OnExisting
        /\ ret'[1].kind = "record"
        /\ call'[1].f.score_dictionary # None)
        => get_score_dict(After) = call'[1].f.score_dictionary[1]]_vars

\* a record created with tags 'g1', and so with a mapping that is not empty,
\* was upserted with the empty mapping and now holds the empty mapping
C29_Witness ==
    /\ call[1].op = "upsert" /\ pc[1] = "idle" /\ ret[1].kind = "record"
    /\ call[1].f = PEmpty
    /\ \E r \in filter_by(table, call[1].key) :
        /\ r.tags = Some("g1")
        /\ r.score_dictionary # None
        /\ get_score_dict(r) = {}

\* the step is the caller's assignment to the record it holds
Changes ==
    /\ held # None /\ held' # None
    /\ held'[1].title = ChangedTitle /\ held[1].title # ChangedTitle
    /\ call' = call /\ ret' = ret

WordAt(t, w, i) ==
    /\ i + Len(w) - 1 <= Len(t)
    /\ SubSeq(t, i, i + Len(w) - 1) = w
    /\ i = 1 \/ ~IsWord(At(t, i - 1))
    /\ i + Len(w) > Len(t) \/ ~IsWord(At(t, i + Len(w)))

\* the positions of w in t, in either case
Places(t, w) == LET l == lower(t) IN {i \in 1..Len(l) : WordAt(l, w, i)}

RECURSIVE InTitles(_, _)
\* the number of occurrences of w across the titles ts
InTitles(ts, w) ==
    IF ts = <<>> THEN 0 ELSE Cardinality(Places(ts[1], w)) + InTitles(Tail(ts), w)

\* the first position of w in the concatenated titles
FirstSeen(ts, w) ==
    LET places == Places(join(ts), w)
    IN IF places = {} THEN 0
       ELSE CHOOSE i \in places : \A j \in places : i <= j

\* the titles of the example
Tips == <<"Best Python tips", "Python tips and tricks", "Best practices">>

\* C21: extract_keywords(posts, top_n) returns at most top_n (word, count)
\* pairs in descending order of count, equal counts in the order the words
\* first occur in the concatenated titles; no returned word is a stop word
\* or shorter than 3 letters, and each count is the number of occurrences of
\* the word across all titles. For the titles 'Best Python tips', 'Python
\* tips and tricks', 'Best practices' and top_n = 3 it returns best 2,
\* python 2, tips 2.
C21_Keywords ==
    [][keywords' # keywords =>
        /\ Len(keywords') <= top_n
        /\ \A i, j \in DOMAIN keywords' : i < j =>
              \/ keywords'[i].count > keywords'[j].count
              \/ /\ keywords'[i].count = keywords'[j].count
                 /\ FirstSeen(titles, keywords'[i].word) < FirstSeen(titles, keywords'[j].word)
        /\ \A i \in DOMAIN keywords' :
              /\ keywords'[i].word \notin STOP_WORDS
              /\ Len(keywords'[i].word) >= 3
              /\ keywords'[i].count = InTitles(titles, keywords'[i].word)
        /\ (titles = Tips /\ top_n = 3) =>
              keywords' = <<[word |-> "best", count |-> 2],
                            [word |-> "python", count |-> 2],
                            [word |-> "tips", count |-> 2]>>]_vars

\* the keywords of the example were extracted
C21_Witness ==
    /\ titles = Tips
    /\ top_n = 3
    /\ Len(keywords) = 3
    /\ keywords[1].word = "best" /\ keywords[3].count = 2

\* C35: for a single caller with max_requests >= 1 and time_window > 0, after
\* every call of wait_if_needed the list of timestamps is non-decreasing and
\* holds at most max_requests entries.
C35_ListSortedAndBounded ==
    lpc = "idle" =>
        /\ Len(requests) <= maxRequests
        /\ \A i, j \in DOMAIN requests : i < j => requests[i] <= requests[j]

\* a call returned with the list full, its entries recorded at different times
C35_Witness ==
    /\ lpc = "idle"
    /\ maxRequests >= 2
    /\ Len(requests) = maxRequests
    /\ requests[1] < requests[Len(requests)]

\* the step enters wait_if_needed and finds the window full
FindsFull ==
    /\ Len(starts') > Len(starts)
    /\ AtLimit(Prune(requests, clock, timeWindow), maxRequests)

\* C36: every call of wait_if_needed terminates: it suspends the caller at
\* most once, for no longer than time_window plus the safety margin, and a
\* call that finds the window full always computes a strictly positive wait
\* and waits, for every max_requests >= 1 and time_window > 0.
C36_WaitsOnceAndReturns ==
    /\ [][/\ FindsFull =>
               /\ SleepTime(Prune(requests, clock, timeWindow), clock, timeWindow) > 0
               /\ lpc' = "sleeping"
               /\ wakeAt' - clock <= timeWindow + Margin
          /\ (lpc = "sleeping" /\ lpc' # lpc) =>
               /\ lpc' = "idle"
               /\ Len(released') = Len(starts)]_vars
    /\ (lpc = "sleeping") ~> (lpc = "idle")

\* a call found the window full and is suspended for time_window plus the margin
C36_Witness ==
    /\ lpc = "sleeping"
    /\ Len(requests) >= maxRequests
    /\ wakeAt - now = timeWindow + Margin

\* C34: list_all(limit=n) never returns more than n records for any n >= 0;
\* list_all(limit=0) returns an empty list.
C34_ListAtMostLimit ==
    [][(/\ listed' # listed
        /\ listed'.kind = "records"
        /\ listed'.limit # None)
        => Len(listed'.records) <= listed'.limit[1]]_vars

\* C33: count() is the number of stored records and clear_all() returns the
\* number of records it removed; after clear_all has returned, count() and
\* count_by_source(s) for every s return 0 and every read returns None.
C33_CountAndClearAll ==
    [][/\ (call'[1].op = "count" /\ <<call, ret>>' # <<call, ret>>) =>
            /\ ret'[1] = RetInt(Cardinality(table))
            /\ table' = table
       /\ (call'[1].op = "clear_all" /\ <<table, call, ret>>' # <<table, call, ret>>) =>
            /\ table' = {}
            /\ ret'[1] = RetInt(Cardinality(table \ table'))
       /\ (call[1].op = "clear_all" /\ call'[1].op = "count") => ret'[1] = RetInt(0)
       /\ (call[1].op = "clear_all" /\ call'[1].op = "count_by_source") => ret'[1] = RetInt(0)
       /\ (call[1].op = "clear_all" /\ call'[1].op = "read") => ret'[1] = RetNone]_vars

\* clear_all removed two records and returned 2
C33_Witness ==
    /\ call[1].op = "clear_all"
    /\ ret[1] = RetInt(2)
    /\ table = {}

\* C32: calculate_engagement_velocity uses age_hours = max(0.1, age): for every
\* post younger than 6 minutes, posts created in the future included,
\* age_hours is exactly 0.1, so score_per_hour never exceeds 10 times the score.
C32_AgeFloor ==
    [][(velocity' # velocity /\ AtMost(Frac(elapsed', SecondsPerHour), AgeFloor)) =>
        /\ Same(velocity'[1].age_hours, AgeFloor)
        /\ AtMost(velocity'[1].score_per_hour, Frac(10 * post.score, 1))]_vars

\* the comments of a tree that collect_comments goes through: the first
\* max_comments items that are no "load more" placeholders
Visited(tree, max_comments) ==
    LET comments == SelectSeq(tree, LAMBDA raw : ~raw.more)
    IN  SubSeq(comments, 1, Min(max_comments, Len(comments)))

\* C31: a fault in the middle of a multi-item fetch never discards the items
\* already extracted: when the fault occurs after k items, collect_posts
\* returns those k posts and collect_comments returns those k comments, and
\* neither raises to its caller.
C31_PartialResultsKept ==
    [][/\ (Leaves("collect_posts") /\ ccall.sort_by \in SortKeys) =>
            /\ cret'.kind = "list"
            /\ cret'.items = Extracted(UntilRaise(Flatten(ccall.listing)))
       /\ Leaves("collect_comments") =>
            /\ cret'.kind = "list"
            /\ \E max_comments \in 1..MaxComments :
                  cret'.items = Extracted(UntilRaise(Visited(ccall.listing[1], max_comments)))]_vars

====
